---------------------------- MODULE Spec2Model ----------------------------
(***************************************************************************)
(* Model of the label classification and normalization subsystem of        *)
(* problem_report:                                                         *)
(*   - src/src/processing/classify.py   (classify_dataframe, the cache,    *)
(*     _hash_text, _safe_json_loads)                                       *)
(*   - src/src/processing/translate.py  (translate_problems)               *)
(*   - src/src/processing/assemble_data.py (_normalize_label,              *)
(*     _merge_key_for_row)                                                 *)
(*                                                                         *)
(* Python strings are sequences of one-character strings, so that          *)
(* str.strip, str.split, str.join and concatenation are computed, not      *)
(* assumed.                                                                *)
(***************************************************************************)
EXTENDS Integers, Sequences, FiniteSets, TLC

VARIABLES
    \* ---- classify_dataframe: the process and the file it shares between runs
    pc,                   \* "idle" | "rows" | "done" | "aborted"
    runs,                 \* number of runs started so far
    cache_file,           \* cache/classify_cache.json
    df, problems_ru, translations, langs, max_labels,   \* arguments of the run
    cache,                \* the in-memory dict of the run
    row,                  \* 1-based position of df.iterrows()
    candidates_ru, first_ru, per_lang_candidates, per_lang_first,
    usage_total,
    \* ---- history of the run (not program state)
    calls,                \* chat_complete_ex calls issued by this run
    lookups,              \* evaluations of `key in cache` by this run
    spent,                \* sum of the usage the calls of this run returned
    last,                 \* what the last loop iteration did
    last_resp,            \* the oracle response the last iteration consumed
    first_out,            \* what the first of two identical runs returned
    \* ---- _hash_text on two (text, vocabulary) pairs
    kpc, pairA, pairB, keyA, keyB,
    \* ---- _safe_json_loads
    jpc, body, hint, fenced, loads_body, loads_fenced,
    \* ---- _merge_key_for_row
    mpc, base_label, ru_label, merged,
    \* ---- main() of cli/classify.py and the --auto-classify path of cli/main.py
    epc,                  \* position of main()
    entry,                \* "classify" | "main"
    env,                  \* environment, arguments and files of the process
    ru_list, cli_langs, cli_tr,   \* locals of main()
    requests,             \* oracle requests issued by translate_problems
    tr_resp,              \* what the translation request was answered with
    out_file,             \* the output file has been written
    \* ---- assemble_problems and build_distribution
    apc,                  \* "off" | "loaded" | "assembled" | "reported"
    data, has_ru,         \* rows of the dataset; an RU problem column exists
    problems_ordered, groups,   \* what assemble_problems returns
    distribution,         \* what build_distribution returns
    \* ---- section generation in main() of cli/main.py
    spc,                  \* "off" | "ready" | "pool" | "seq" | "collected" | "failed"
    workers,              \* args.concurrency
    answers,              \* what generation and editing answer, per problem
    tasks,                \* the futures of the pool, per problem
    si,                   \* position of the sequential loop
    sections, total_usage \* locals of main()

runVars == <<pc, runs, cache_file, df, problems_ru, translations, langs,
             max_labels, cache, row, candidates_ru, first_ru,
             per_lang_candidates, per_lang_first, usage_total,
             calls, lookups, spent, last, last_resp, first_out>>
keyVars == <<kpc, pairA, pairB, keyA, keyB>>
jsonVars == <<jpc, body, hint, fenced, loads_body, loads_fenced>>
mergeVars == <<mpc, base_label, ru_label, merged>>
cliVars == <<epc, entry, env, ru_list, cli_langs, cli_tr, requests, tr_resp,
             out_file>>
asmVars == <<apc, data, has_ru, problems_ordered, groups, distribution>>
secVars == <<spc, workers, answers, tasks, si, sections, total_usage>>
vars == <<runVars, keyVars, jsonVars, mergeVars, cliVars, asmVars, secVars>>

---------------------------------------------------------------------------
(* Bounds of the model *)
MaxRows == 2
MaxRuns == 2
MaxLabels == 2
MaxRespLen == 2

---------------------------------------------------------------------------
(* Python string primitives *)

Whitespace == {" ", "\n", "\t", "\r"}

RECURSIVE LStripChars(_, _)
LStripChars(s, cs) ==
    IF s # <<>> /\ Head(s) \in cs THEN LStripChars(Tail(s), cs) ELSE s

RECURSIVE RStripChars(_, _)
RStripChars(s, cs) ==
    IF s # <<>> /\ s[Len(s)] \in cs
    THEN RStripChars(SubSeq(s, 1, Len(s) - 1), cs)
    ELSE s

\* str.strip(chars)
StripChars(s, cs) == RStripChars(LStripChars(s, cs), cs)

\* str.strip()
Strip(s) == StripChars(s, Whitespace)

\* sep.join(parts)
RECURSIVE Join(_, _)
Join(parts, sep) ==
    IF parts = <<>> THEN <<>>
    ELSE IF Len(parts) = 1 THEN parts[1]
    ELSE parts[1] \o sep \o Join(Tail(parts), sep)

Range(f) == { f[x] : x \in DOMAIN f }
Min(a, b) == IF a <= b THEN a ELSE b

---------------------------------------------------------------------------
(* classify.py: values *)

\* A cell of the text column: NaN, or a string.
NaN == [na |-> TRUE, s |-> <<>>]
Str(s) == [na |-> FALSE, s |-> s]

\* text_raw = str(row[text_col]) if pd.notna(row[text_col]) else ""
TextRaw(cell) == IF cell.na THEN <<>> ELSE cell.s

\* The digest of the first 16 hex digits of SHA-256, taken as collision-free:
\* the digest of s is s under a tag.
HashText(s) == [sha256_16 |-> s]

\* key = _hash_text(t + "|" + "|".join(problems_ru))
HashedString(t, vocab) == t \o <<"|">> \o Join(vocab, <<"|">>)
CacheKey(t, vocab) == HashText(HashedString(t, vocab))

EmptyCache == [k \in {} |-> <<>>]
ZeroUsage == [prompt_tokens |-> 0, completion_tokens |-> 0, total_tokens |-> 0]

\* A buggy variant: the completion tokens are added to the prompt counter.
AddUsageCrossed(tot, u) ==
    [prompt_tokens |-> tot.prompt_tokens + u.completion_tokens,
     completion_tokens |-> tot.completion_tokens + u.completion_tokens,
     total_tokens |-> tot.total_tokens + u.total_tokens]

\* usage_total[c] += usage.get(c, 0), for the three counters
AddUsage(tot, u) ==
    [prompt_tokens |-> tot.prompt_tokens + u.prompt_tokens,
     completion_tokens |-> tot.completion_tokens + u.completion_tokens,
     total_tokens |-> tot.total_tokens + u.total_tokens]

\* A buggy variant: the file is never read.
LoadCacheNever(file) == EmptyCache

\* cache = json.loads(cache_file.read_text()) if cache_file.exists() else {}
LoadCache(file) ==
    IF file.kind = "object" THEN file.entries ELSE EmptyCache

\* json.dumps(cache): the file holds the JSON object of the dict
DumpCache(c) == [kind |-> "object", entries |-> c]
AbsentFile == [kind |-> "absent", entries |-> EmptyCache]

\* Other contents of the cache file: a file whose read raises, text that is
\* not JSON, a JSON array or string, a JSON number, boolean or null.
UnreadableFile == [kind |-> "unreadable", entries |-> EmptyCache]
GarbageFile == [kind |-> "garbage", entries |-> EmptyCache]
ArrayFile == [kind |-> "array", entries |-> EmptyCache]
ScalarFile == [kind |-> "scalar", entries |-> EmptyCache]

\* json.loads of a file that holds JSON but no object succeeds (lines 93-96
\* catch nothing): `cache` is then no dict. The variable cache holds the
\* entries of the dict, none in that case, and the type of the loaded value
\* is that of the file the run started with, which stays as it is until the
\* run ends.
\*   `key in cache` on a number, a boolean or None raises TypeError
LookupFails(file) == file.kind = "scalar"
\*   `cache[key] = ids` on a list or a str raises TypeError
StoreFails(file) == file.kind = "array"

\* A buggy variant: storing an entry drops the others.
StoreAlone(c, key, ids) == [k \in {key} |-> ids]

\* cache[key] = ids
Store(c, key, ids) ==
    [k \in DOMAIN c \cup {key} |-> IF k = key THEN ids ELSE c[k]]

---------------------------------------------------------------------------
(* classify.py: the oracle's answer and what lines 116-126 make of it *)

\* An element of the "problem_ids" list: an int v, the float v + 0.5, the
\* float NaN, or a string.
IntItem(v) == [t |-> "int", v |-> v]
FloatItem(v) == [t |-> "float", v |-> v]
NanItem == [t |-> "nan", v |-> 0]
StrItem == [t |-> "str", v |-> 0]

\* isinstance(i, (int, float))
IsNumber(item) == item.t \in {"int", "float", "nan"}

\* int(i): truncation toward zero; int(float("nan")) raises ValueError
ToInt(item) == item.v

\* What chat_complete_ex and the parse deliver:
\*   raise      chat_complete_ex raises (transport error, content None)
\*   text       the content is not JSON: json.loads raises
\*   nonobject  the content is JSON but no object: data.get raises
\*   object     a JSON object; pid says what its "problem_ids" is
RaiseResp == [kind |-> "raise", pid |-> "absent", items |-> <<>>]
TextResp == [kind |-> "text", pid |-> "absent", items |-> <<>>]
NonObjectResp == [kind |-> "nonobject", pid |-> "absent", items |-> <<>>]
ObjectResp(pid, items) == [kind |-> "object", pid |-> pid, items |-> items]

\* Line 116 raises.
CallRaises(resp) == resp.kind = "raise"

\* Lines 117-118 raise: json.loads on non-JSON, .get on a non-dict.
ParseRaises(resp) == resp.kind \in {"text", "nonobject"}

\* ids = data.get("problem_ids", []); if not isinstance(ids, list): ids = []
RawIds(resp) == IF resp.pid = "list" THEN resp.items ELSE <<>>

\* Line 125 raises: int() of a NaN entry.
ConvertRaises(resp) == \E k \in DOMAIN RawIds(resp) : RawIds(resp)[k].t = "nan"

\* ids = [int(i) for i in ids if isinstance(i, (int, float))]
NumericIds(raw) ==
    LET nums == SelectSeq(raw, IsNumber)
    IN  [k \in 1..Len(nums) |-> ToInt(nums[k])]

\* A buggy variant: one id too many is kept.
TruncateOneMore(ids, n) == SubSeq(ids, 1, Min(n + 1, Len(ids)))

\* ids = ids[: params.max_labels_per_text]      (max_labels >= 1)
Truncate(ids, n) == SubSeq(ids, 1, Min(n, Len(ids)))

\* Lines 118-126 on a response that raises nowhere.
ResponseIds(resp, n) == Truncate(NumericIds(RawIds(resp)), n)

\* A buggy variant: a hit yields no ids.
CachedIdsEmpty(c, key) == <<>>

\* ids = cache[key]
CachedIds(c, key) == c[key]

---------------------------------------------------------------------------
(* classify.py: from ids to the columns of a row, lines 129-139 *)

\* A buggy variant: the ids are taken as 0-based positions.
RuLabelsZeroBased(ids, vocab) ==
    LET valid == SelectSeq(ids, LAMBDA i : i \in 0..(Len(vocab) - 1))
        named == [k \in 1..Len(valid) |-> vocab[valid[k] + 1]]
    IN  SelectSeq(named, LAMBDA s : s # <<>>)

\* problems_index_to_ru = {i + 1: ru for i, ru in enumerate(problems_ru)}
\* ru_labels = [problems_index_to_ru.get(i, "") for i in ids
\*              if i in problems_index_to_ru]
\* ru_labels = [s for s in ru_labels if s]
RuLabels(ids, vocab) ==
    LET valid == SelectSeq(ids, LAMBDA i : i \in 1..Len(vocab))
        named == [k \in 1..Len(valid) |-> vocab[valid[k]]]
    IN  SelectSeq(named, LAMBDA s : s # <<>>)

\* translations.get(ru, {}).get(lang, "")
TranslationOf(tr, ru, lang) ==
    IF ru \in DOMAIN tr /\ lang \in DOMAIN tr[ru] THEN tr[ru][lang] ELSE <<>>

\* build_classify_prompt:
\* per_lang = [translations.get(ru, {}).get(lang, "") for ru in problems_ru]
PerLang(vocab, tr, lang) ==
    [i \in 1..Len(vocab) |-> TranslationOf(tr, vocab[i], lang)]

\* lang_labels = [translations.get(ru, {}).get(lang, "") for ru in ru_labels]
\* lang_labels = [s for s in lang_labels if s]
LangLabels(ru_labels, tr, lang) ==
    LET all == [k \in 1..Len(ru_labels) |-> TranslationOf(tr, ru_labels[k], lang)]
    IN  SelectSeq(all, LAMBDA s : s # <<>>)

\* "|".join(labels)
Candidates(labels) == Join(labels, <<"|">>)

\* labels[0] if labels else ""
First(labels) == IF labels # <<>> THEN labels[1] ELSE <<>>

---------------------------------------------------------------------------
(* translate.py: translate_problems, lines 60-67 *)

\* A buggy variant: the translated element is stored as it came.
TranslateProblemsUntrimmed(vocab, lgs, arrs) ==
    [ru \in Range(vocab) |->
        LET Arr(l) == IF l \in DOMAIN arrs THEN arrs[l] ELSE <<>>
            Pos(l) == { i \in 1..Len(vocab) : vocab[i] = ru /\ i <= Len(Arr(l)) }
            Got == { l \in Range(lgs) : Pos(l) # {} }
        IN  [l \in Got |->
                Arr(l)[CHOOSE i \in Pos(l) : \A j \in Pos(l) : j <= i]]]

\* result = {ru: {} for ru in problems_ru}
\* for lang in langs: arr = translations.get(lang, [])
\*     for idx, ru in enumerate(problems_ru):
\*         if idx < len(arr): result[ru][lang] = str(arr[idx]).strip()
\* A later position holding the same string overwrites an earlier one.
TranslateProblems(vocab, lgs, arrs) ==
    [ru \in Range(vocab) |->
        LET Arr(l) == IF l \in DOMAIN arrs THEN arrs[l] ELSE <<>>
            Pos(l) == { i \in 1..Len(vocab) : vocab[i] = ru /\ i <= Len(Arr(l)) }
            Got == { l \in Range(lgs) : Pos(l) # {} }
        IN  [l \in Got |->
                Strip(Arr(l)[CHOOSE i \in Pos(l) : \A j \in Pos(l) : j <= i])]]


---------------------------------------------------------------------------
(* The inputs the runs are given *)

MaxId == 2

B == <<"b">>
C == <<"c">>

\* Cells of the text column: missing, blank, " a" (trimmed: "a"), "a|b".
RawTexts == { NaN, Str(<<" ">>), Str(<<" ", "a">>), Str(<<"a", "|", "b">>) }
\* The cells of the corpora that successive runs are given.
RepeatTexts == { NaN, Str(<<" ">>), Str(<<" ", "a">>) }
DataFrames(texts) == UNION { [1..n -> texts] : n \in 1..MaxRows }

\* The lines of the problems file, trimmed and non-empty (cli/classify.py:43).
Vocabularies == { <<B, C>>, <<C>> }
LangLists == { <<"en">>, <<"en", "sw">> }

\* The translated lists the oracle returns: complete for "en", one entry
\* shorter than the vocabulary for "sw".
LangTag(l) == IF l = "en" THEN <<"E">> ELSE <<"S">>
OracleArrays(vocab, lgs) ==
    [l \in Range(lgs) |->
        [i \in 1..(Len(vocab) - (IF l = "en" THEN 0 ELSE 1)) |->
            LangTag(l) \o vocab[i]]]
TranslationMaps(vocab, lgs) ==
    { TranslateProblems(vocab, lgs, OracleArrays(vocab, lgs)) }

Items == { IntItem(v) : v \in 0..MaxId } \cup { FloatItem(1), NanItem, StrItem }
ItemLists == UNION { [1..n -> Items] : n \in 0..MaxRespLen }
Responses ==
    { RaiseResp, TextResp, NonObjectResp,
      ObjectResp("absent", <<>>), ObjectResp("nonlist", <<>>) }
    \cup { ObjectResp("list", items) : items \in ItemLists }

\* usage of one call, as chat_complete_ex returns it
Usages == { [prompt_tokens |-> 2, completion_tokens |-> 1, total_tokens |-> 3] }

---------------------------------------------------------------------------
(* classify_dataframe *)

NoRow == [kind |-> "none", ids |-> <<>>, ru_labels |-> <<>>,
          lang_labels |-> [l \in {} |-> <<>>]]
NoResp == [kind |-> "none", pid |-> "absent", items |-> <<>>]
NoOutput == [taken |-> FALSE]

\* A buggy variant: the text is not trimmed.
CurTextUntrimmed == TextRaw(df[row])

\* The trimmed text of the row at the loop's position, and its cache key.
CurText == Strip(TextRaw(df[row]))
CurKey == CacheKey(CurText, problems_ru)
InLoop == pc = "rows" /\ row <= Len(df)

\* Lines 79-98: a new process calls classify_dataframe.
StartRun(d, vocab, tr, lgs, n) ==
    /\ pc \in {"idle", "done", "aborted"}
    /\ runs < MaxRuns
    /\ runs' = runs + 1
    /\ pc' = "rows"
    /\ df' = d /\ problems_ru' = vocab /\ translations' = tr
    /\ langs' = lgs /\ max_labels' = n
    /\ usage_total' = ZeroUsage
    /\ candidates_ru' = <<>> /\ first_ru' = <<>>
    /\ per_lang_candidates' = [l \in Range(lgs) |-> <<>>]
    /\ per_lang_first' = [l \in Range(lgs) |-> <<>>]
    /\ cache' = LoadCache(cache_file)
    /\ row' = 1
    /\ calls' = 0 /\ lookups' = 0 /\ spent' = ZeroUsage
    /\ last' = NoRow /\ last_resp' = NoResp
    /\ UNCHANGED cache_file

\* Lines 129-139: the columns of the row whose ids are `ids`.
AppendLabels(kind, ids) ==
    LET ru_labels == RuLabels(ids, problems_ru)
        lang_labels == [l \in Range(langs) |-> LangLabels(ru_labels, translations, l)]
    IN  /\ candidates_ru' = Append(candidates_ru, Candidates(ru_labels))
        /\ first_ru' = Append(first_ru, First(ru_labels))
        /\ per_lang_candidates' =
              [l \in Range(langs) |->
                  Append(per_lang_candidates[l], Candidates(lang_labels[l]))]
        /\ per_lang_first' =
              [l \in Range(langs) |->
                  Append(per_lang_first[l], First(lang_labels[l]))]
        /\ last' = [kind |-> kind, ids |-> ids, ru_labels |-> ru_labels,
                    lang_labels |-> lang_labels]
        /\ row' = row + 1

\* Lines 103-109: `if not t`.
IsBlank(t) == t = <<>>

BlankRow ==
    /\ InLoop
    /\ IsBlank(CurText)
    /\ candidates_ru' = Append(candidates_ru, <<>>)
    /\ first_ru' = Append(first_ru, <<>>)
    /\ per_lang_candidates' =
          [l \in Range(langs) |-> Append(per_lang_candidates[l], <<>>)]
    /\ per_lang_first' =
          [l \in Range(langs) |-> Append(per_lang_first[l], <<>>)]
    /\ row' = row + 1
    /\ last' = [NoRow EXCEPT !.kind = "blank"]
    /\ last_resp' = NoResp
    /\ UNCHANGED <<pc, runs, cache_file, df, problems_ru, translations, langs,
                   max_labels, cache, usage_total, calls, lookups, spent>>

\* Lines 111-113: `if key in cache: ids = cache[key]`.
CacheHit ==
    /\ InLoop
    /\ ~IsBlank(CurText)
    /\ CurKey \in DOMAIN cache
    /\ lookups' = lookups + 1
    /\ AppendLabels("hit", CachedIds(cache, CurKey))
    /\ last_resp' = NoResp
    /\ UNCHANGED <<pc, runs, cache_file, df, problems_ru, translations, langs,
                   max_labels, cache, usage_total, calls, spent>>

\* Lines 114-127 with the oracle answering `resp`, `usage`: an exception leaves
\* classify_dataframe (nothing catches it), otherwise the ids are stored.
OracleMiss(resp, usage) ==
    /\ InLoop
    /\ ~IsBlank(CurText)
    /\ ~LookupFails(cache_file)
    /\ CurKey \notin DOMAIN cache
    /\ lookups' = lookups + 1
    /\ calls' = calls + 1
    /\ spent' = IF CallRaises(resp) THEN spent
                ELSE [c \in DOMAIN spent |-> spent[c] + usage[c]]
    /\ IF CallRaises(resp) \/ ParseRaises(resp)
       THEN /\ pc' = "aborted"
            /\ last' = [NoRow EXCEPT !.kind = "raised"]
            /\ UNCHANGED <<cache, usage_total, row, candidates_ru, first_ru,
                           per_lang_candidates, per_lang_first>>
       ELSE /\ usage_total' = AddUsage(usage_total, usage)
            /\ IF ConvertRaises(resp) \/ StoreFails(cache_file)
               THEN /\ pc' = "aborted"
                    /\ last' = [NoRow EXCEPT !.kind = "raised"]
                    /\ UNCHANGED <<cache, row, candidates_ru, first_ru,
                                   per_lang_candidates, per_lang_first>>
               ELSE LET ids == ResponseIds(resp, max_labels)
                    IN  /\ cache' = Store(cache, CurKey, ids)
                        /\ AppendLabels("miss", ids)
                        /\ UNCHANGED pc
    /\ UNCHANGED <<runs, cache_file, df, problems_ru, translations, langs,
                   max_labels>>

\* Lines 111-112 with a loaded value on which `key in cache` raises.
LookupRaises ==
    /\ InLoop
    /\ ~IsBlank(CurText)
    /\ LookupFails(cache_file)
    /\ lookups' = lookups + 1
    /\ pc' = "aborted"
    /\ last' = [NoRow EXCEPT !.kind = "raised"]
    /\ last_resp' = NoResp
    /\ UNCHANGED <<runs, cache_file, df, problems_ru, translations, langs,
                   max_labels, cache, row, candidates_ru, first_ru,
                   per_lang_candidates, per_lang_first, usage_total, calls,
                   spent>>

\* Lines 141-154: the loop is over; the cache is written (best effort) and the
\* augmented frame and the usage are returned.
WriteCache(ok) ==
    /\ pc = "rows" /\ row > Len(df)
    /\ pc' = "done"
    /\ cache_file' = IF ok /\ ~LookupFails(cache_file) /\ ~StoreFails(cache_file)
                      THEN DumpCache(cache) ELSE cache_file
    /\ last' = [NoRow EXCEPT !.kind = IF ok THEN "saved" ELSE "unsaved"]
    /\ last_resp' = NoResp
    /\ UNCHANGED <<runs, df, problems_ru, translations, langs, max_labels,
                   cache, row, candidates_ru, first_ru, per_lang_candidates,
                   per_lang_first, usage_total, calls, lookups, spent>>

\* What classify_dataframe returns: the label columns and the usage.
Returned ==
    [taken |-> TRUE,
     candidates_ru |-> candidates_ru, first_ru |-> first_ru,
     per_lang_candidates |-> per_lang_candidates,
     per_lang_first |-> per_lang_first,
     usage_total |-> usage_total]

---------------------------------------------------------------------------
(* Specification: runs of classify_dataframe, one after the other, on any    *)
(* inputs, sharing cache/classify_cache.json.                               *)

KeyIdle ==
    /\ kpc = "off" /\ pairA = <<>> /\ pairB = <<>>
    /\ keyA = <<>> /\ keyB = <<>>
JsonIdle ==
    /\ jpc = "off" /\ body = <<>> /\ hint = <<>> /\ fenced = <<>>
    /\ loads_body = <<>> /\ loads_fenced = <<>>
MergeIdle ==
    /\ mpc = "off" /\ base_label = <<>> /\ ru_label = <<>> /\ merged = <<>>

RunInit ==
    /\ pc = "idle" /\ runs = 0
    /\ cache_file = AbsentFile
    /\ df = <<>> /\ problems_ru = <<>> /\ translations = <<>>
    /\ langs = <<>> /\ max_labels = 1
    /\ cache = EmptyCache /\ row = 1
    /\ candidates_ru = <<>> /\ first_ru = <<>>
    /\ per_lang_candidates = <<>> /\ per_lang_first = <<>>
    /\ usage_total = ZeroUsage
    /\ calls = 0 /\ lookups = 0 /\ spent = ZeroUsage
    /\ last = NoRow /\ last_resp = NoResp
    /\ first_out = NoOutput

NoTrResp == [kind |-> "none", arrays |-> <<>>]

AsmIdle ==
    /\ apc = "off" /\ data = <<>> /\ has_ru = FALSE
    /\ problems_ordered = <<>> /\ groups = <<>> /\ distribution = <<>>

SecIdle ==
    /\ spc = "off" /\ workers = 1 /\ answers = <<>> /\ tasks = <<>>
    /\ si = 1 /\ sections = <<>> /\ total_usage = ZeroUsage

CliIdle ==
    /\ epc = "off" /\ entry = "none" /\ env = <<>>
    /\ ru_list = <<>> /\ cli_langs = <<>> /\ cli_tr = <<>>
    /\ requests = 0 /\ tr_resp = NoTrResp /\ out_file = FALSE

Init == RunInit /\ KeyIdle /\ JsonIdle /\ MergeIdle /\ CliIdle /\ AsmIdle /\ SecIdle

StartWith(texts) ==
    \E vocab \in Vocabularies, lgs \in LangLists :
       \E tr \in TranslationMaps(vocab, lgs) :
          \E d \in DataFrames(texts), n \in 1..MaxLabels :
             StartRun(d, vocab, tr, lgs, n)

Start ==
    /\ StartWith(RepeatTexts)
    /\ UNCHANGED first_out

Miss ==
    /\ \E resp \in Responses, usage \in Usages : OracleMiss(resp, usage)
    /\ last_resp' = NoResp
    /\ UNCHANGED first_out

Finish ==
    /\ \E ok \in BOOLEAN : WriteCache(ok)
    /\ UNCHANGED first_out

Next ==
    \/ Start /\ UNCHANGED <<keyVars, jsonVars, mergeVars, cliVars, asmVars, secVars>>
    \/ BlankRow /\ UNCHANGED <<first_out, keyVars, jsonVars, mergeVars, cliVars, asmVars, secVars>>
    \/ CacheHit /\ UNCHANGED <<first_out, keyVars, jsonVars, mergeVars, cliVars, asmVars, secVars>>
    \/ Miss /\ UNCHANGED <<keyVars, jsonVars, mergeVars, cliVars, asmVars, secVars>>
    \/ Finish /\ UNCHANGED <<keyVars, jsonVars, mergeVars, cliVars, asmVars, secVars>>

Spec == Init /\ [][Next]_vars

---------------------------------------------------------------------------
(* Specification: one run of classify_dataframe from a cold cache, any      *)
(* corpus, with the oracle's response to the last miss kept for reference.  *)

StartCold ==
    /\ runs = 0
    /\ StartWith(RawTexts)
    /\ UNCHANGED first_out

TracedMiss ==
    /\ \E resp \in Responses, usage \in Usages :
          OracleMiss(resp, usage) /\ last_resp' = resp
    /\ UNCHANGED first_out

NextRow ==
    \/ StartCold /\ UNCHANGED <<keyVars, jsonVars, mergeVars, cliVars, asmVars, secVars>>
    \/ BlankRow /\ UNCHANGED <<first_out, keyVars, jsonVars, mergeVars, cliVars, asmVars, secVars>>
    \/ CacheHit /\ UNCHANGED <<first_out, keyVars, jsonVars, mergeVars, cliVars, asmVars, secVars>>
    \/ TracedMiss /\ UNCHANGED <<keyVars, jsonVars, mergeVars, cliVars, asmVars, secVars>>
    \/ Finish /\ UNCHANGED <<keyVars, jsonVars, mergeVars, cliVars, asmVars, secVars>>

SpecRow == Init /\ [][NextRow]_vars

---------------------------------------------------------------------------
(* Specification: classify_dataframe run twice in succession on the same    *)
(* inputs, the first run from a cold cache.                                 *)

\* The second run: the arguments of the first, in a new process, once the
\* first has returned and has written the cache file.
Again ==
    /\ pc = "done" /\ runs = 1 /\ last.kind = "saved"
    /\ first_out' = Returned
    /\ StartRun(df, problems_ru, translations, langs, max_labels)

NextTwice ==
    \/ StartCold /\ UNCHANGED <<keyVars, jsonVars, mergeVars, cliVars, asmVars, secVars>>
    \/ BlankRow /\ UNCHANGED <<first_out, keyVars, jsonVars, mergeVars, cliVars, asmVars, secVars>>
    \/ CacheHit /\ UNCHANGED <<first_out, keyVars, jsonVars, mergeVars, cliVars, asmVars, secVars>>
    \/ Miss /\ UNCHANGED <<keyVars, jsonVars, mergeVars, cliVars, asmVars, secVars>>
    \/ Finish /\ UNCHANGED <<keyVars, jsonVars, mergeVars, cliVars, asmVars, secVars>>
    \/ Again /\ UNCHANGED <<keyVars, jsonVars, mergeVars, cliVars, asmVars, secVars>>

SpecTwice == Init /\ [][NextTwice]_vars

---------------------------------------------------------------------------
(* Specification: runs of classify_dataframe whose oracle calls return      *)
(* different usage records.                                                 *)

\* What chat_complete_ex returns as usage: zeros when the response carries no
\* usage, otherwise the three counters of the response.
CallUsages ==
    { ZeroUsage,
      [prompt_tokens |-> 2, completion_tokens |-> 1, total_tokens |-> 3],
      [prompt_tokens |-> 3, completion_tokens |-> 0, total_tokens |-> 3] }

\* Answers of the oracle: a failed call, a text that is not JSON, an object
\* without problem_ids, and lists of ids.
MeteredResponses ==
    { RaiseResp, TextResp, ObjectResp("absent", <<>>),
      ObjectResp("list", <<IntItem(1)>>),
      ObjectResp("list", <<IntItem(2), IntItem(1)>>) }

MeteredMiss ==
    /\ \E resp \in MeteredResponses, usage \in CallUsages :
          OracleMiss(resp, usage)
    /\ last_resp' = NoResp
    /\ UNCHANGED first_out

NextUsage ==
    \/ Start /\ UNCHANGED <<keyVars, jsonVars, mergeVars, cliVars, asmVars, secVars>>
    \/ BlankRow /\ UNCHANGED <<first_out, keyVars, jsonVars, mergeVars, cliVars, asmVars, secVars>>
    \/ CacheHit /\ UNCHANGED <<first_out, keyVars, jsonVars, mergeVars, cliVars, asmVars, secVars>>
    \/ MeteredMiss /\ UNCHANGED <<keyVars, jsonVars, mergeVars, cliVars, asmVars, secVars>>
    \/ Finish /\ UNCHANGED <<keyVars, jsonVars, mergeVars, cliVars, asmVars, secVars>>

SpecUsage == Init /\ [][NextUsage]_vars

---------------------------------------------------------------------------
(* Specification: one run of classify_dataframe that finds any content in   *)
(* cache/classify_cache.json, with an oracle that answers well.             *)

\* What the run may find: no file, the file an earlier run wrote, or a file
\* with other content.
WrittenFile == DumpCache(Store(EmptyCache, CacheKey(<<"a">>, <<C>>), <<1>>))
CacheFiles ==
    { AbsentFile, WrittenFile, UnreadableFile, GarbageFile, ArrayFile,
      ScalarFile }

\* Well-formed answers of the oracle.
GoodResponses ==
    { ObjectResp("list", <<>>), ObjectResp("list", <<IntItem(1)>>),
      ObjectResp("list", <<IntItem(1), IntItem(2)>>) }

FilesInit ==
    /\ pc = "idle" /\ runs = 0
    /\ cache_file \in CacheFiles
    /\ df = <<>> /\ problems_ru = <<>> /\ translations = <<>>
    /\ langs = <<>> /\ max_labels = 1
    /\ cache = EmptyCache /\ row = 1
    /\ candidates_ru = <<>> /\ first_ru = <<>>
    /\ per_lang_candidates = <<>> /\ per_lang_first = <<>>
    /\ usage_total = ZeroUsage
    /\ calls = 0 /\ lookups = 0 /\ spent = ZeroUsage
    /\ last = NoRow /\ last_resp = NoResp
    /\ first_out = NoOutput

GoodMiss ==
    /\ \E resp \in GoodResponses, usage \in Usages :
          OracleMiss(resp, usage) /\ last_resp' = resp
    /\ UNCHANGED first_out

\* The run starts; first_out keeps the file it found.
StartOnFile ==
    /\ runs = 0
    /\ StartWith(RepeatTexts)
    /\ first_out' = [taken |-> FALSE, found |-> cache_file]

InitFiles == FilesInit /\ KeyIdle /\ JsonIdle /\ MergeIdle /\ CliIdle /\ AsmIdle /\ SecIdle

NextFiles ==
    \/ StartOnFile /\ UNCHANGED <<keyVars, jsonVars, mergeVars, cliVars, asmVars, secVars>>
    \/ BlankRow /\ UNCHANGED <<first_out, keyVars, jsonVars, mergeVars, cliVars, asmVars, secVars>>
    \/ CacheHit /\ UNCHANGED <<first_out, keyVars, jsonVars, mergeVars, cliVars, asmVars, secVars>>
    \/ GoodMiss /\ UNCHANGED <<keyVars, jsonVars, mergeVars, cliVars, asmVars, secVars>>
    \/ LookupRaises /\ UNCHANGED <<first_out, keyVars, jsonVars, mergeVars, cliVars, asmVars, secVars>>
    \/ Finish /\ UNCHANGED <<keyVars, jsonVars, mergeVars, cliVars, asmVars, secVars>>

SpecFiles == InitFiles /\ [][NextFiles]_vars

---------------------------------------------------------------------------
(* Properties of classify_dataframe *)

\* The row the last loop iteration handled, its trimmed text and its key.
LastRow == row - 1
LastKey == CacheKey(Strip(TextRaw(df[LastRow])), problems_ru)

\* The n-th smallest member of a set of integers.
Nth(S, n) == CHOOSE i \in S : Cardinality({ x \in S : x <= i }) = n

\* The positions of the numeric entries of a problem_ids list, and the
\* integer each stands for.
NumericPositions(items) == { i \in DOMAIN items : items[i].t \in {"int", "float"} }
EntryValue(item) == item.v

\* A cell with no text: missing, or nothing but whitespace.
NoText(cell) == cell.na \/ \A i \in DOMAIN cell.s : cell.s[i] \in Whitespace

\* C1 (cache idempotence): when classify_dataframe is run a second time on
\* the inputs of a first run that started from an empty cache and wrote the
\* cache file, the second run issues no oracle call, reports zero usage, does
\* not abort, and every row it has handled carries the label columns (base
\* language and per language, primary and candidates) the first run gave it;
\* at its end the columns are those of the first run.
C1_CacheIdempotence ==
    (runs = 2) =>
        /\ pc \in {"rows", "done"}
        /\ calls = 0
        /\ usage_total = ZeroUsage
        /\ Len(candidates_ru) = row - 1
        /\ \A r \in 1..(row - 1) :
              /\ candidates_ru[r] = first_out.candidates_ru[r]
              /\ first_ru[r] = first_out.first_ru[r]
              /\ \A l \in Range(langs) :
                    /\ per_lang_candidates[l][r] = first_out.per_lang_candidates[l][r]
                    /\ per_lang_first[l][r] = first_out.per_lang_first[l][r]
        /\ (pc = "done") =>
              /\ candidates_ru = first_out.candidates_ru
              /\ first_ru = first_out.first_ru
              /\ per_lang_candidates = first_out.per_lang_candidates
              /\ per_lang_first = first_out.per_lang_first

\* A second run has returned, on a corpus with two different texts that the
\* first run sent to the oracle and got labels for.
C1_Witness ==
    /\ runs = 2 /\ pc = "done"
    /\ Len(df) = 2 /\ lookups = 2
    /\ candidates_ru[1] # <<>> /\ candidates_ru[2] # <<>>
    /\ candidates_ru[1] # candidates_ru[2]
    /\ first_out.usage_total # ZeroUsage

\* C2 (candidate count): for every row a run has handled, the number of
\* base-language candidates, and of candidates in each target language, is at
\* most the max_labels of that run.
C2_CandidatesWithinMaxLabels ==
    (pc \in {"rows", "done"} /\ last.kind \in {"hit", "miss"}) =>
        /\ Len(last.ru_labels) <= max_labels
        /\ \A l \in Range(langs) : Len(last.lang_labels[l]) <= max_labels

\* C3 as stated: the candidates of a row answered by the oracle are the
\* labels of the ids of the response that lie in [1, len(vocabulary)], in
\* response order, up to max_labels of them: an invalid id never removes a
\* valid one.
C3_ValidIdsNeverRemoved ==
    (last.kind = "miss") =>
        LET items == RawIds(last_resp)
            valid == { i \in NumericPositions(items) :
                          EntryValue(items[i]) \in 1..Len(problems_ru) }
            kept == { i \in valid :
                          Cardinality({ x \in valid : x <= i }) <= max_labels }
        IN  /\ Len(last.ru_labels) = Cardinality(kept)
            /\ \A j \in 1..Cardinality(kept) :
                  last.ru_labels[j] = problems_ru[EntryValue(items[Nth(kept, j)])]

\* C3 as amended: the candidates of a row answered by the oracle are the
\* labels of the ids in [1, len(vocabulary)] among the first max_labels
\* numeric entries of the response, in response order; no id outside
\* [1, len(vocabulary)] gives a candidate.
C3_OutOfRangeDiscard ==
    (last.kind = "miss") =>
        LET items == RawIds(last_resp)
            numeric == NumericPositions(items)
            head == { i \in numeric :
                          Cardinality({ x \in numeric : x <= i }) <= max_labels }
            kept == { i \in head : EntryValue(items[i]) \in 1..Len(problems_ru) }
        IN  /\ Len(last.ru_labels) = Cardinality(kept)
            /\ \A j \in 1..Cardinality(kept) :
                  last.ru_labels[j] = problems_ru[EntryValue(items[Nth(kept, j)])]
            /\ candidates_ru[LastRow] = Candidates(last.ru_labels)

\* The oracle answered [2, 1] for a vocabulary of one label in a run with
\* max_labels = 2: the id len(vocabulary)+1 gave no candidate and the valid
\* id next to it was kept.
C3_Witness ==
    /\ last.kind = "miss"
    /\ max_labels = 2
    /\ Len(problems_ru) = 1
    /\ last_resp.items = <<IntItem(2), IntItem(1)>>
    /\ last.ru_labels = <<problems_ru[1]>>
    /\ candidates_ru[LastRow] = problems_ru[1]

C5_MalformedIsNonFatal ==
    (\/ last_resp.kind \in {"text", "nonobject"}
     \/ (last_resp.kind = "object" /\ last_resp.pid # "list")) =>
        /\ pc # "aborted"
        /\ last.kind = "miss"
        /\ last.ru_labels = <<>>

\* C7 (blank-text short-circuit): the loop iteration on a row without text
\* appends the empty string to the base-language columns and to the columns
\* of every requested language, issues no oracle call, leaves the usage
\* totals, the cache (no lookup, no entry) and the cache file as they are,
\* and goes on with the next row.
C7_BlankShortCircuit ==
    [][ (pc = "rows" /\ row <= Len(df) /\ NoText(df[row])) =>
          /\ pc' = "rows" /\ row' = row + 1
          /\ candidates_ru' = Append(candidates_ru, <<>>)
          /\ first_ru' = Append(first_ru, <<>>)
          /\ \A l \in Range(langs) :
                /\ per_lang_candidates'[l] = Append(per_lang_candidates[l], <<>>)
                /\ per_lang_first'[l] = Append(per_lang_first[l], <<>>)
          /\ calls' = calls /\ usage_total' = usage_total
          /\ lookups' = lookups /\ cache' = cache /\ cache_file' = cache_file
      ]_vars

\* A run over a missing cell and a whitespace cell with two languages has
\* returned: no call, no lookup, empty columns; the cache file of an earlier
\* run holds an entry.
C7_Witness ==
    /\ pc = "done" /\ runs = 2
    /\ df = <<NaN, Str(<<" ">>)>>
    /\ Len(langs) = 2
    /\ calls = 0 /\ lookups = 0
    /\ candidates_ru = << <<>>, <<>> >>
    /\ per_lang_first["sw"] = << <<>>, <<>> >>
    /\ DOMAIN cache # {}

C15_CacheErrorsNeverAbort ==
    /\ (runs = 1 /\ first_out.found.kind # "object") =>
          /\ pc # "aborted"
          /\ (row = 1) => cache = EmptyCache
    /\ (runs = 1 /\ last.kind = "unsaved") =>
          /\ pc = "done"
          /\ Len(candidates_ru) = Len(df) /\ Len(first_ru) = Len(df)

\* C16 (per-language columns are positional): for every row that got ids and
\* every target language, the language's primary label is the translation of
\* the row's base-language primary label (the empty string when it has
\* none), and the k-th candidate of the language is the translation of the
\* k-th base-language candidate: a missing translation does not move the
\* translation of a lower-ranked candidate up.
C16_LanguageColumnsPositional ==
    (pc \in {"rows", "done"} /\ last.kind \in {"hit", "miss"}) =>
        \A l \in Range(langs) :
            /\ per_lang_first[l][LastRow]
                  = TranslationOf(translations, first_ru[LastRow], l)
            /\ per_lang_candidates[l][LastRow] = Join(last.lang_labels[l], <<"|">>)
            /\ \A k \in 1..Len(last.lang_labels[l]) :
                  last.lang_labels[l][k]
                     = TranslationOf(translations, last.ru_labels[k], l)

---------------------------------------------------------------------------
(* Specification: the cache key of two (trimmed text, vocabulary) pairs.    *)

A == <<"a">>
AA == <<"a", "|", "a">>
AB == <<"a", "|", "b">>

\* Trimmed, non-empty texts, and vocabularies of trimmed, non-empty lines.
KeyTexts == { A, AB, B }
KeyVocabularies == { <<B, C>>, <<C, B>>, <<C>>, <<AA, A>>, <<A, AA>> }
KeyPairs == [text : KeyTexts, vocab : KeyVocabularies]

KeyInit ==
    /\ kpc = "pairs"
    /\ pairA \in KeyPairs /\ pairB \in KeyPairs
    /\ keyA = <<>> /\ keyB = <<>>

\* Line 111, for each of the two pairs.
ComputeKeys ==
    /\ kpc = "pairs"
    /\ kpc' = "hashed"
    /\ keyA' = CacheKey(pairA.text, pairA.vocab)
    /\ keyB' = CacheKey(pairB.text, pairB.vocab)
    /\ UNCHANGED <<pairA, pairB>>

InitKey == RunInit /\ KeyInit /\ JsonIdle /\ MergeIdle /\ CliIdle /\ AsmIdle /\ SecIdle
NextKey == ComputeKeys /\ UNCHANGED <<runVars, jsonVars, mergeVars, cliVars, asmVars, secVars>>
SpecKey == InitKey /\ [][NextKey]_vars

\* C6 (fingerprint distinctness): two (text, vocabulary) pairs that differ in
\* the text or in the vocabulary as an ordered sequence never get the same
\* hashed string, hence never the same cache key.
C6_DistinctPairsDistinctKeys ==
    (kpc = "hashed" /\ pairA # pairB) =>
        /\ keyA.sha256_16 # keyB.sha256_16
        /\ keyA # keyB

---------------------------------------------------------------------------
(* classify.py / translate.py: _safe_json_loads *)

\* The character U+0060 (a TLA+ string cannot hold it), and the fence of three.
Backtick == "U+0060"
Fence == <<Backtick, Backtick, Backtick>>

\* str.lower(), on the letters the texts below are written with
LowerChar(c) ==
    CASE c = "J" -> "j" [] c = "S" -> "s" [] c = "O" -> "o" [] c = "N" -> "n"
      [] OTHER -> c
\* A buggy variant: the hint is compared as written.
LowerStrKeep(s) == s

LowerStr(s) == [i \in 1..Len(s) |-> LowerChar(s[i])]

\* s.startswith(prefix)
StartsWith(s, prefix) ==
    Len(s) >= Len(prefix) /\ SubSeq(s, 1, Len(prefix)) = prefix

\* s.split(sep, 1)
SplitOnce(s, sep) ==
    LET at == { i \in DOMAIN s : s[i] = sep }
    IN  IF at = {} THEN <<s>>
        ELSE LET p == CHOOSE i \in at : \A j \in at : i <= j
             IN  <<SubSeq(s, 1, p - 1), SubSeq(s, p + 1, Len(s))>>

\* {"json", "javascript", "js"}
HintWords ==
    { <<"j", "s", "o", "n">>,
      <<"j", "a", "v", "a", "s", "c", "r", "i", "p", "t">>,
      <<"j", "s">> }

\* The JSON documents of the model and their values; the value of a document
\* is written as its text without insignificant whitespace.
EmptyObjectText == <<"{", "}">>
IdsObjectText == <<"{", "\"", "p", "\"", ":", "[", "1", "]", "}">>
IdsObjectLines ==
    <<"{", "\n", "\"", "p", "\"", ":", " ", "[", "1", "]", "\n", "}">>
ListText == <<"[", "1", "]">>
ProseText == <<"n", "o">>

JsonDocs ==
    { [text |-> EmptyObjectText, value |-> EmptyObjectText],
      [text |-> IdsObjectText, value |-> IdsObjectText],
      [text |-> IdsObjectLines, value |-> IdsObjectText],
      [text |-> ListText, value |-> ListText] }

\* json.loads(s): leading and trailing whitespace is skipped; any other text
\* than a JSON document raises.
JsonError == [ok |-> FALSE, value |-> <<>>]
JsonLoads(s) ==
    LET t == Strip(s)
        docs == { d \in JsonDocs : d.text = t }
    IN  IF docs = {} THEN JsonError
        ELSE [ok |-> TRUE, value |-> (CHOOSE d \in docs : TRUE).value]

\* _safe_json_loads(s)
SafeJsonLoads(s) ==
    LET s1 == Strip(s)
        s2 == StripChars(s1, {Backtick})
        parts == SplitOnce(s2, "\n")
    IN  IF StartsWith(s1, Fence)
        THEN IF Len(parts) = 2 /\ LowerStr(parts[1]) \in HintWords
             THEN JsonLoads(parts[2])
             ELSE JsonLoads(s2)
        ELSE JsonLoads(s1)

---------------------------------------------------------------------------
(* Specification: _safe_json_loads on a response body and on the same body  *)
(* inside a code fence.                                                     *)

Bodies == { EmptyObjectText, IdsObjectText, IdsObjectLines, ListText, ProseText }

\* The line that follows the opening fence: empty, or a language hint.
NoHint == <<>>
KnownHints ==
    { <<"j", "s", "o", "n">>, <<"J", "S", "O", "N">>, <<"J", "s", "o", "n">>,
      <<"j", "s">>,
      <<"j", "a", "v", "a", "s", "c", "r", "i", "p", "t">> }
OtherHints == { <<"j", "s", "o", "n", "5">>, <<"t", "e", "x", "t">> }
HintLines == { NoHint } \cup KnownHints \cup OtherHints

\* The body in a fence: the opening fence, the hint line, the body, the
\* closing fence, on its own line or not, with or without whitespace around.
Fenced(b, h, closeOnOwnLine, padded) ==
    (IF padded THEN <<"\n">> ELSE <<>>)
    \o Fence \o h \o <<"\n">> \o b
    \o (IF closeOnOwnLine THEN <<"\n">> ELSE <<>>)
    \o Fence
    \o (IF padded THEN <<" ", "\n">> ELSE <<>>)

JsonInit ==
    /\ jpc = "received"
    /\ body \in Bodies
    /\ hint \in HintLines
    /\ \E c \in BOOLEAN, p \in BOOLEAN : fenced = Fenced(body, hint, c, p)
    /\ loads_body = <<>> /\ loads_fenced = <<>>

Parse ==
    /\ jpc = "received"
    /\ jpc' = "parsed"
    /\ loads_body' = SafeJsonLoads(body)
    /\ loads_fenced' = SafeJsonLoads(fenced)
    /\ UNCHANGED <<body, hint, fenced>>

InitJson == RunInit /\ KeyIdle /\ JsonInit /\ MergeIdle /\ CliIdle /\ AsmIdle /\ SecIdle
NextJson == Parse /\ UNCHANGED <<runVars, keyVars, mergeVars, cliVars, asmVars, secVars>>
SpecJson == InitJson /\ [][NextJson]_vars

\* C8 as stated: a body in a code fence, with any language hint line or with
\* none, parses to what the body alone parses to.
C8_FencedParsesAsBody ==
    (jpc = "parsed") => loads_fenced = loads_body

\* C8 as amended: a body in a code fence, with no hint line or with the hint
\* json, javascript or js in any letter case, parses to what the body alone
\* parses to.
C8_KnownHintFencedParsesAsBody ==
    (jpc = "parsed" /\ hint \in KnownHints \cup { NoHint }) =>
        loads_fenced = loads_body

\* A multi-line object in a fence with the hint JSON has been parsed.
C8_Witness ==
    /\ jpc = "parsed"
    /\ hint = <<"J", "S", "O", "N">>
    /\ body = IdsObjectLines
    /\ loads_fenced = [ok |-> TRUE, value |-> IdsObjectText]


---------------------------------------------------------------------------
(* assemble_data.py: _normalize_label and _merge_key_for_row                *)
(*                                                                         *)
(* A label is written [kind, core, form, pad]: None, a float NaN, or the    *)
(* string whose trimmed lower-case text is `core`, written in lower case or *)
(* with a capital first letter (`form`), with or without whitespace around  *)
(* it (`pad`). The Russian texts of the source are transliterated.          *)

NoneLabel == [kind |-> "none", core |-> "", form |-> "lower", pad |-> FALSE]
NanLabel == [kind |-> "nan", core |-> "", form |-> "lower", pad |-> FALSE]
StrLabel(core, form, pad) ==
    [kind |-> "str", core |-> core, form |-> form, pad |-> pad]

\* if s is None or (isinstance(s, float) and pd.isna(s)): return ""
\* return str(s).strip().lower()
NormalizeLabel(l) == IF l.kind \in {"none", "nan"} THEN "" ELSE l.core

\* ecology_synonyms, lines 24-34
EcologySynonyms ==
    { "ekologicheskie problemy", "ekologiya", "zagryaznenie vozduha i vody",
      "zagryaznenie vozduha", "zagryaznenie vody", "izmenenie klimata",
      "klimaticheskie izmeneniya", "zasuha", "zasuhi" }
\* power_synonyms, lines 39-45
PowerSynonyms ==
    { "sboi elektrosnabzheniya", "pereboi s elektrichestvom",
      "stoimost elektroenergii",
      "problemy s elektroenergiej (sboi, vysokaya stoimost, deficit)",
      "elektroenergiya" }
\* housing_synonyms, lines 50-54
HousingSynonyms ==
    { "zhilishchnye usloviya", "vysokie ceny na zhilyo i arendu",
      "plohie zhilishchnye usloviya i vysokaya stoimost zhilya" }
\* inflation_synonyms, lines 59-64
InflationSynonyms ==
    { "inflyaciya", "inflyaciya i rost cen", "vysokie ceny na produkty",
      "vysokie ceny na toplivo" }

\* The umbrella category names, lines 36, 47, 56, 66
\* A buggy variant: an umbrella name that is a synonym of another set.
EcologyCategoryInflated == StrLabel("inflyaciya", "cap", FALSE)
EcologyCategory == StrLabel("ekologiya, klimat i zagryaznenie", "cap", FALSE)
PowerCategory == StrLabel("elektroenergiya: sboi i vysokaya stoimost", "cap", FALSE)
HousingCategory == StrLabel("zhilyo: usloviya i vysokaya stoimost", "cap", FALSE)
InflationCategory == StrLabel("inflyaciya i rost cen (produkty, toplivo)", "cap", FALSE)

\* The fallback of a buggy variant: the normalized label instead of the label.
MergeKeyForRowFolded(base, ru) ==
    LET ru_norm == NormalizeLabel(ru)
        base_norm == NormalizeLabel(base)
    IN  IF ru_norm \in EcologySynonyms \/ base_norm \in EcologySynonyms
        THEN EcologyCategory
        ELSE IF ru_norm \in PowerSynonyms \/ base_norm \in PowerSynonyms
        THEN PowerCategory
        ELSE IF ru_norm \in HousingSynonyms \/ base_norm \in HousingSynonyms
        THEN HousingCategory
        ELSE IF ru_norm \in InflationSynonyms \/ base_norm \in InflationSynonyms
        THEN InflationCategory
        ELSE StrLabel(base_norm, "lower", FALSE)

\* _merge_key_for_row(base_label, ru_label)
MergeKeyForRow(base, ru) ==
    LET ru_norm == NormalizeLabel(ru)
        base_norm == NormalizeLabel(base)
    IN  IF ru_norm \in EcologySynonyms \/ base_norm \in EcologySynonyms
        THEN EcologyCategory
        ELSE IF ru_norm \in PowerSynonyms \/ base_norm \in PowerSynonyms
        THEN PowerCategory
        ELSE IF ru_norm \in HousingSynonyms \/ base_norm \in HousingSynonyms
        THEN HousingCategory
        ELSE IF ru_norm \in InflationSynonyms \/ base_norm \in InflationSynonyms
        THEN InflationCategory
        ELSE base

---------------------------------------------------------------------------
(* Specification: _merge_key_for_row on a raw label and a secondary label.  *)

\* The sentinel 'net' ("no problem") and labels of no synonym set.
OtherCores == { "net", "dorogi", "" }
LabelCores ==
    EcologySynonyms \cup PowerSynonyms \cup HousingSynonyms
    \cup InflationSynonyms
    \cup { EcologyCategory.core, PowerCategory.core, HousingCategory.core,
           InflationCategory.core }
    \cup OtherCores
StrLabels == { StrLabel(c, f, p) : c \in LabelCores, f \in {"lower", "cap"},
                                    p \in BOOLEAN }

MergeInit ==
    /\ mpc = "row"
    /\ base_label \in StrLabels
    /\ ru_label \in StrLabels \cup { NoneLabel, NanLabel }
    /\ merged = <<>>

Merge ==
    /\ mpc = "row"
    /\ mpc' = "merged"
    /\ merged' = MergeKeyForRow(base_label, ru_label)
    /\ UNCHANGED <<base_label, ru_label>>

InitMerge == RunInit /\ KeyIdle /\ JsonIdle /\ MergeInit /\ CliIdle /\ AsmIdle /\ SecIdle
NextMerge == Merge /\ UNCHANGED <<runVars, keyVars, jsonVars, cliVars, asmVars, secVars>>
SpecMerge == InitMerge /\ [][NextMerge]_vars

\* The synonym sets with their umbrella categories, and a label trimmed and
\* case-folded.
SynonymGroups ==
    { [synonyms |-> EcologySynonyms, category |-> EcologyCategory],
      [synonyms |-> PowerSynonyms, category |-> PowerCategory],
      [synonyms |-> HousingSynonyms, category |-> HousingCategory],
      [synonyms |-> InflationSynonyms, category |-> InflationCategory] }
Folded(l) == IF l.kind = "str" THEN l.core ELSE ""
InNoGroup(l) == \A g \in SynonymGroups : Folded(l) \notin g.synonyms

\* C9 (secondary label first): whenever the normalized secondary label is in
\* a synonym set, the result is that set's umbrella category, whatever the
\* raw label is.
C9_SecondaryLabelPriority ==
    (mpc = "merged") =>
        \A g \in SynonymGroups :
            (Folded(ru_label) \in g.synonyms) => merged = g.category

\* C10 (fallback): when neither the raw label nor the secondary label (or
\* None), trimmed and case-folded, is in a synonym set, the result is the raw
\* label exactly as passed in, which is a string, not null.
C10_FallbackIsRawLabel ==
    (mpc = "merged" /\ InNoGroup(base_label) /\ InNoGroup(ru_label)) =>
        /\ merged = base_label
        /\ merged.kind = "str"

\* A capitalised raw label with whitespace around it, in no synonym set, and
\* no secondary label: the result is the raw label with its capital and its
\* whitespace.
C10_Witness ==
    /\ mpc = "merged"
    /\ base_label = StrLabel("dorogi", "cap", TRUE)
    /\ ru_label = NoneLabel
    /\ merged = StrLabel("dorogi", "cap", TRUE)

---------------------------------------------------------------------------
(* cli/classify.py: main(), and the --auto-classify path of cli/main.py     *)
(* (lines 45-80, taken when no RU problem column was detected).             *)
(*                                                                         *)
(* The --langs argument is a sequence of symbols: a language code is one    *)
(* symbol, "," and " " are characters.                                      *)

\* s.split(sep)
RECURSIVE SplitAll(_, _)
SplitAll(s, sep) ==
    LET parts == SplitOnce(s, sep)
    IN  IF Len(parts) = 1 THEN parts
        ELSE <<parts[1]>> \o SplitAll(parts[2], sep)

\* [x.strip() for x in items if x.strip()]
StripNonEmpty(items) ==
    LET stripped == [i \in 1..Len(items) |-> Strip(items[i])]
    IN  SelectSeq(stripped, LAMBDA x : x # <<>>)

\* langs = [x.strip() for x in args.langs.split(",") if x.strip()]; a code is
\* the one symbol of its item.
ParsedLangs(arg) ==
    LET items == StripNonEmpty(SplitAll(arg, ","))
    IN  [i \in 1..Len(items) |-> items[i][1]]

\* if not langs or len(langs) > 2: raise SystemExit
LangsRejected(lgs) == lgs = <<>> \/ Len(lgs) > 2

\* ru_list = [line.strip() for line in ....splitlines() if line.strip()]
ReadVocabulary(file) == StripNonEmpty(file.lines)

\* The values of --langs, and the problems files (absent, or their lines).
LangArgs ==
    { <<>>, <<"en">>, <<"en", ",", " ", "sw">>,
      <<"en", ",", "sw", ",", "fr">>, <<" ", ",">> }
NoProblemsFile == [exists |-> FALSE, lines |-> <<>>]
ProblemsFile(lines) == [exists |-> TRUE, lines |-> lines]
ProblemFiles ==
    { NoProblemsFile, ProblemsFile(<<>>), ProblemsFile(<< <<" ">> >>),
      ProblemsFile(<< <<" ", "b">>, <<"c">> >>),
      ProblemsFile(<< <<"c">>, <<>> >>),
      ProblemsFile(<< <<"c">>, <<"c", " ">> >>) }
Environments ==
    [api_key : BOOLEAN, langs_arg : LangArgs, problems : ProblemFiles]

\* What translate_problems gets from the oracle: a failed call, a text that is
\* not JSON, JSON that is no object, or an object with translated lists:
\* complete for every language, one entry short for "sw", without "sw",
\* complete with whitespace around every element, or complete with the
\* position written after every element.
CompleteArrays(vocab, lgs) ==
    [l \in Range(lgs) |-> [i \in 1..Len(vocab) |-> LangTag(l) \o vocab[i]]]
WithoutSw(vocab, lgs) ==
    [l \in Range(lgs) \ {"sw"} |-> [i \in 1..Len(vocab) |-> LangTag(l) \o vocab[i]]]
PaddedArrays(vocab, lgs) ==
    [l \in Range(lgs) |->
        [i \in 1..Len(vocab) |-> <<" ">> \o LangTag(l) \o vocab[i] \o <<"\n">>]]
NumberedArrays(vocab, lgs) ==
    [l \in Range(lgs) |->
        [i \in 1..Len(vocab) |->
            LangTag(l) \o vocab[i] \o (IF i = 1 THEN <<"1">> ELSE <<"2">>)]]
TranslatedArrays(vocab, lgs) ==
    { CompleteArrays(vocab, lgs), OracleArrays(vocab, lgs),
      WithoutSw(vocab, lgs), PaddedArrays(vocab, lgs),
      NumberedArrays(vocab, lgs) }
TrFailures == { "raise", "text", "nonobject" }
TrResponses(vocab, lgs) ==
    { [kind |-> k, arrays |-> <<>>] : k \in TrFailures }
    \cup { [kind |-> "object", arrays |-> a] : a \in TranslatedArrays(vocab, lgs) }

CliInit ==
    /\ epc = "start"
    /\ entry \in {"classify", "main"}
    /\ env \in Environments
    /\ ru_list = <<>> /\ cli_langs = <<>> /\ cli_tr = <<>>
    /\ requests = 0 /\ tr_resp = NoTrResp /\ out_file = FALSE

\* cli/classify.py:28-29, cli/main.py:46-47
CheckKey ==
    /\ epc = "start"
    /\ epc' = IF env.api_key THEN "key_ok" ELSE "exit"
    /\ UNCHANGED <<entry, env, tr_resp, ru_list, cli_langs, cli_tr, requests, out_file>>
    /\ UNCHANGED runVars

\* cli/classify.py:31-33, cli/main.py:61-65
ParseLangs ==
    /\ \/ entry = "classify" /\ epc = "key_ok"
       \/ entry = "main" /\ epc = "data_ok"
    /\ IF entry = "main" /\ env.langs_arg = <<>>
       THEN epc' = "exit" /\ UNCHANGED cli_langs
       ELSE /\ cli_langs' = ParsedLangs(env.langs_arg)
            /\ epc' = IF LangsRejected(cli_langs') THEN "exit" ELSE "langs_ok"
    /\ UNCHANGED <<entry, env, tr_resp, ru_list, cli_tr, requests, out_file>>
    /\ UNCHANGED runVars

\* cli/classify.py:39, cli/main.py:53: load_dataset
LoadData ==
    /\ \/ entry = "classify" /\ epc = "langs_ok"
       \/ entry = "main" /\ epc = "key_ok"
    /\ \E d \in DataFrames(RepeatTexts) : df' = d
    /\ epc' = "data_ok"
    /\ UNCHANGED <<entry, env, tr_resp, ru_list, cli_langs, cli_tr, requests, out_file>>
    /\ UNCHANGED <<pc, runs, cache_file, problems_ru, translations, langs,
                   max_labels, cache, row, candidates_ru, first_ru,
                   per_lang_candidates, per_lang_first, usage_total,
                   calls, lookups, spent, last, last_resp, first_out>>

\* cli/classify.py:43-45 (read_text of a missing file raises, an empty list
\* exits); cli/main.py:68-70 and 77 (a missing file exits, the list is taken
\* as it is).
LoadVocabulary ==
    /\ \/ entry = "classify" /\ epc = "data_ok"
       \/ entry = "main" /\ epc = "langs_ok"
    /\ IF ~env.problems.exists
       THEN /\ epc' = IF entry = "classify" THEN "crashed" ELSE "exit"
            /\ UNCHANGED ru_list
       ELSE /\ ru_list' = ReadVocabulary(env.problems)
            /\ epc' = IF entry = "classify" /\ ru_list' = <<>>
                      THEN "exit" ELSE "vocab_ok"
    /\ UNCHANGED <<entry, env, tr_resp, cli_langs, cli_tr, requests, out_file>>
    /\ UNCHANGED runVars

\* A buggy variant: a failed translation degrades to no translations.
TranslateLenient(resp) ==
    /\ epc = "vocab_ok"
    /\ requests' = requests + 1
    /\ tr_resp' = resp
    /\ cli_tr' = IF resp.kind \in TrFailures
                 THEN TranslateProblems(ru_list, cli_langs, <<>>)
                 ELSE TranslateProblems(ru_list, cli_langs, resp.arrays)
    /\ epc' = "translated"
    /\ UNCHANGED <<entry, env, ru_list, cli_langs, out_file>>
    /\ UNCHANGED runVars

\* cli/classify.py:50, cli/main.py:78: translate_problems (translate.py:56-67)
\* issues one oracle request; a failed call, json.loads or data.get raises and
\* nothing catches it.
Translate(resp) ==
    /\ epc = "vocab_ok"
    /\ requests' = requests + 1
    /\ tr_resp' = resp
    /\ IF resp.kind \in TrFailures
       THEN epc' = "crashed" /\ UNCHANGED cli_tr
       ELSE /\ cli_tr' = TranslateProblems(ru_list, cli_langs, resp.arrays)
            /\ epc' = "translated"
    /\ UNCHANGED <<entry, env, ru_list, cli_langs, out_file>>
    /\ UNCHANGED runVars

\* cli/classify.py:55-58, cli/main.py:79-80
CallClassify(n) ==
    /\ epc = "translated"
    /\ StartRun(df, ru_list, cli_tr, cli_langs, n)
    /\ epc' = "classifying"
    /\ UNCHANGED <<entry, env, tr_resp, ru_list, cli_langs, cli_tr, requests, out_file,
                   first_out>>

\* An exception of classify_dataframe leaves main().
RunFailed ==
    /\ epc = "classifying" /\ pc = "aborted"
    /\ epc' = "crashed"
    /\ UNCHANGED <<entry, env, tr_resp, ru_list, cli_langs, cli_tr, requests, out_file>>
    /\ UNCHANGED runVars

\* cli/classify.py:70-78: the classified rows are saved; cli/main.py:81-88 goes
\* on to the report with the classified frame.
RunReturned ==
    /\ epc = "classifying" /\ pc = "done"
    /\ epc' = IF entry = "classify" THEN "finished" ELSE "classified"
    /\ out_file' = (entry = "classify")
    /\ UNCHANGED <<entry, env, tr_resp, ru_list, cli_langs, cli_tr, requests>>
    /\ UNCHANGED runVars

CliMiss ==
    /\ \E resp \in MeteredResponses, usage \in Usages : OracleMiss(resp, usage)
    /\ last_resp' = NoResp
    /\ UNCHANGED first_out

InitCli == RunInit /\ KeyIdle /\ JsonIdle /\ MergeIdle /\ CliInit /\ AsmIdle /\ SecIdle

NextCli ==
    \/ CheckKey /\ UNCHANGED <<keyVars, jsonVars, mergeVars, asmVars, secVars>>
    \/ ParseLangs /\ UNCHANGED <<keyVars, jsonVars, mergeVars, asmVars, secVars>>
    \/ LoadData /\ UNCHANGED <<keyVars, jsonVars, mergeVars, asmVars, secVars>>
    \/ LoadVocabulary /\ UNCHANGED <<keyVars, jsonVars, mergeVars, asmVars, secVars>>
    \/ (\E resp \in TrResponses(ru_list, cli_langs) : Translate(resp))
          /\ UNCHANGED <<keyVars, jsonVars, mergeVars, asmVars, secVars>>
    \/ (\E n \in 1..MaxLabels : CallClassify(n))
          /\ UNCHANGED <<keyVars, jsonVars, mergeVars, asmVars, secVars>>
    \/ BlankRow /\ UNCHANGED <<first_out, keyVars, jsonVars, mergeVars, cliVars, asmVars, secVars>>
    \/ CacheHit /\ UNCHANGED <<first_out, keyVars, jsonVars, mergeVars, cliVars, asmVars, secVars>>
    \/ CliMiss /\ UNCHANGED <<keyVars, jsonVars, mergeVars, cliVars, asmVars, secVars>>
    \/ Finish /\ UNCHANGED <<keyVars, jsonVars, mergeVars, cliVars, asmVars, secVars>>
    \/ RunFailed /\ UNCHANGED <<keyVars, jsonVars, mergeVars, asmVars, secVars>>
    \/ RunReturned /\ UNCHANGED <<keyVars, jsonVars, mergeVars, asmVars, secVars>>

SpecCli == InitCli /\ [][NextCli]_vars

\* The configuration errors: no API key, a language list that has not one or
\* two codes, a problems file with no label on any line.
CodesOf(arg) == { i \in DOMAIN arg : arg[i] \notin {",", " "} }
NoLabelLine(file) ==
    \A i \in DOMAIN file.lines :
        \A j \in DOMAIN file.lines[i] : file.lines[i][j] \in Whitespace
ConfigurationError ==
    \/ ~env.api_key
    \/ Cardinality(CodesOf(env.langs_arg)) \notin {1, 2}
    \/ (env.problems.exists /\ NoLabelLine(env.problems))

\* C12 (configuration errors are fatal before any work): in both entry
\* points, with a configuration error the process never issues an oracle
\* request (translation or classification), never starts classify_dataframe,
\* never writes the cache file or an output.
C12_ConfigErrorsStopBeforeWork ==
    (epc # "off" /\ ConfigurationError) =>
        /\ requests = 0 /\ calls = 0 /\ runs = 0
        /\ cache_file = AbsentFile /\ out_file = FALSE
        /\ epc \notin {"translated", "classifying", "classified", "finished"}

\* C13 (a malformed translation response is a hard failure): when the answer
\* to the translation request is not JSON, or is JSON but no object,
\* translate_problems raises and the process is over: classify_dataframe is
\* never started, no classification oracle call is issued, the cache file is
\* not written and no output is produced.
C13_TranslationFailureIsFatal ==
    (tr_resp.kind \in {"text", "nonobject"}) =>
        /\ epc = "crashed"
        /\ pc = "idle" /\ runs = 0 /\ calls = 0
        /\ cache_file = AbsentFile
        /\ out_file = FALSE

\* The --auto-classify path got a text that is not JSON for its translation
\* request, with a corpus of two rows loaded and a vocabulary of two labels.
C13_Witness ==
    /\ entry = "main" /\ tr_resp.kind = "text" /\ requests = 1
    /\ epc = "crashed"
    /\ Len(df) = 2 /\ Len(ru_list) = 2

\* The translated list of a language in the answer (empty when the language
\* is absent), and the positions of the vocabulary it covers.
AnswerList(l) ==
    IF l \in DOMAIN tr_resp.arrays THEN tr_resp.arrays[l] ELSE <<>>
CoveredPositions(ru, l) ==
    { i \in DOMAIN ru_list : ru_list[i] = ru /\ i <= Len(AnswerList(l)) }
Translated == tr_resp.kind = "object"

C17_TranslationByPosition ==
    Translated =>
        /\ \A l \in Range(cli_langs) : \A i \in DOMAIN ru_list :
              (i <= Len(AnswerList(l))) =>
                  TranslationOf(cli_tr, ru_list[i], l) = Strip(AnswerList(l)[i])
        /\ (epc = "classifying" /\ last.kind \in {"hit", "miss"}
               /\ Len(last.ids) = 1 /\ last.ids[1] \in DOMAIN ru_list) =>
              /\ first_ru[LastRow] = ru_list[last.ids[1]]
              /\ \A l \in Range(cli_langs) :
                    (last.ids[1] <= Len(AnswerList(l))) =>
                        per_lang_first[l][LastRow]
                           = Strip(AnswerList(l)[last.ids[1]])

---------------------------------------------------------------------------
(* assemble_data.py: assemble_problems and build_distribution               *)
(*                                                                         *)
(* A row of the dataset is [base, ru, msg]: its problem label, its RU        *)
(* problem label (read only when the dataset has that column) and its        *)
(* message cell. The dataset has no link column and no other problem_*       *)
(* column.                                                                  *)

MaxData == 3

\* str(x) of a label cell: a missing value reads "nan", None reads "None".
StrOf(l) ==
    CASE l.kind = "nan" -> StrLabel("nan", "lower", FALSE)
      [] l.kind = "none" -> StrLabel("None", "lower", FALSE)
      [] OTHER -> l

\* The pseudo-label of lines 94 and 168
Sentinel == StrLabel("net", "lower", FALSE)

\* merged_labels, lines 80-90 and 155-165
MergedLabels(rows, hasRu) ==
    [i \in 1..Len(rows) |->
        MergeKeyForRow(StrOf(rows[i].base),
                       IF hasRu THEN StrOf(rows[i].ru) ELSE NoneLabel)]

\* pd.Series(labels).value_counts(dropna=True), without its order
ValueCounts(labels) ==
    [p \in Range(labels) |-> Cardinality({ i \in DOMAIN labels : labels[i] = p })]

\* A buggy variant: the pseudo-label is kept.
DropSentinelNever(counts) == counts

\* if 'net' in counts.index: counts = counts[counts.index != 'net']
DropSentinel(counts) == [p \in DOMAIN counts \ {Sentinel} |-> counts[p]]

\* The orders value_counts may give: by descending count, ties in any order.
Orderings(counts) ==
    LET n == Cardinality(DOMAIN counts)
    IN  { o \in [1..n -> DOMAIN counts] :
            /\ \A j, k \in 1..n : o[j] = o[k] => j = k
            /\ \A k \in 1..(n - 1) : counts[o[k]] >= counts[o[k + 1]] }

\* normalize(msg), lines 98-104; None is <<>>
NormalizeMessage(msg, max_chars) ==
    IF msg.na THEN <<>>
    ELSE LET t == Strip(msg.s)
         IN  IF Len(t) > max_chars
             THEN SubSeq(t, 1, max_chars) \o <<".", ".", ".">>
             ELSE t

\* Lines 109-115: the rows of the group with a message, and their messages
Subset(rows, merged_labels, p) ==
    SelectSeq([i \in 1..Len(rows) |-> i],
              LAMBDA i : merged_labels[i] = p /\ ~rows[i].msg.na)
Messages(rows, merged_labels, p, max_messages, max_chars) ==
    LET subset == Subset(rows, merged_labels, p)
        all == [k \in 1..Len(subset) |-> NormalizeMessage(rows[subset[k]].msg, max_chars)]
        kept == SelectSeq(all, LAMBDA m : m # <<>>)
    IN  SubSeq(kept, 1, Min(max_messages, Len(kept)))

\* Lines 120-124: the first RU label of the group that is not missing
ProblemRu(rows, merged_labels, p, hasRu) ==
    LET subset == Subset(rows, merged_labels, p)
        given == SelectSeq(subset, LAMBDA i : rows[i].ru.kind # "nan")
    IN  IF hasRu /\ given # <<>> THEN rows[given[1]].ru ELSE NoneLabel

\* assemble_problems(df, cols, max_messages, max_chars)
AssembleProblems(max_messages, max_chars) ==
    /\ apc = "loaded"
    /\ apc' = "assembled"
    /\ LET merged_labels == MergedLabels(data, has_ru)
           counts == DropSentinel(ValueCounts(merged_labels))
           grouped == { p \in DOMAIN counts :
                          Messages(data, merged_labels, p, max_messages, max_chars) # <<>> }
       IN  /\ \E o \in Orderings(counts) : problems_ordered' = o
           /\ groups' =
                 [p \in grouped |->
                     [problem_ru |-> ProblemRu(data, merged_labels, p, has_ru),
                      messages |-> Messages(data, merged_labels, p, max_messages, max_chars),
                      count |-> counts[p]]]
    /\ UNCHANGED <<data, has_ru, distribution>>

\* build_distribution(df, cols)
BuildDistribution ==
    /\ apc = "assembled"
    /\ apc' = "reported"
    /\ LET merged_labels == MergedLabels(data, has_ru)
           series == DropSentinel(ValueCounts(merged_labels))
       IN  \E o \in Orderings(series) :
              distribution' = [k \in 1..Len(o) |-> <<o[k], series[o[k]]>>]
    /\ UNCHANGED <<data, has_ru, problems_ordered, groups>>

---------------------------------------------------------------------------
(* Specification: assemble_problems, then build_distribution, on a dataset. *)

DataLabels ==
    { Sentinel, StrLabel("net", "cap", FALSE), StrLabel("dorogi", "lower", FALSE) }
DataRuLabels == { StrLabel("inflyaciya", "lower", FALSE), NanLabel }
DataMessages == { NaN, Str(<<" ">>), Str(<<"m", "m", " ">>) }
DataRows == [base : DataLabels, ru : DataRuLabels, msg : DataMessages]
Datasets == UNION { [1..n -> DataRows] : n \in 1..MaxData }

AsmInit ==
    /\ apc = "loaded"
    /\ data \in Datasets
    /\ has_ru \in BOOLEAN
    /\ problems_ordered = <<>> /\ groups = <<>> /\ distribution = <<>>

InitAsm == RunInit /\ KeyIdle /\ JsonIdle /\ MergeIdle /\ CliIdle /\ AsmInit /\ SecIdle

NextAsm ==
    \/ (\E max_messages \in 1..2, max_chars \in 1..2 :
           AssembleProblems(max_messages, max_chars))
          /\ UNCHANGED <<runVars, keyVars, jsonVars, mergeVars, cliVars, secVars>>
    \/ BuildDistribution
          /\ UNCHANGED <<runVars, keyVars, jsonVars, mergeVars, cliVars, secVars>>

SpecAsm == InitAsm /\ [][NextAsm]_vars

\* The rows whose merged_labels category is the pseudo-label, the dataset without
\* them, and the number of rows of a category in a dataset.
SentinelRows ==
    { i \in DOMAIN data : MergedLabels(data, has_ru)[i] = Sentinel }
OtherRows == DOMAIN data \ SentinelRows
RowsOf(p) == { i \in OtherRows : MergedLabels(data, has_ru)[i] = p }

\* C18 (sentinel exclusion): the pseudo-label passes the normalizer unchanged
\* when no synonym set applies; the problem list and the groups of
\* assemble_problems and the rows of build_distribution have no entry for it,
\* and every other category is listed exactly once in each with the number of
\* its own rows.
C18_SentinelExcluded ==
    /\ MergeKeyForRow(Sentinel, NoneLabel) = Sentinel
    /\ MergeKeyForRow(Sentinel, StrOf(NanLabel)) = Sentinel
    /\ (apc \in {"assembled", "reported"}) =>
          /\ Sentinel \notin Range(problems_ordered)
          /\ Sentinel \notin DOMAIN groups
          /\ \A p \in Range(problems_ordered) : RowsOf(p) # {}
          /\ \A i \in OtherRows :
                \E k \in DOMAIN problems_ordered :
                   problems_ordered[k] = MergedLabels(data, has_ru)[i]
          /\ \A p \in DOMAIN groups : groups[p].count = Cardinality(RowsOf(p))
    /\ (apc = "reported") =>
          /\ \A k \in DOMAIN distribution :
                /\ distribution[k][1] # Sentinel
                /\ distribution[k][2] = Cardinality(RowsOf(distribution[k][1]))
          /\ \A i \in OtherRows :
                \E k \in DOMAIN distribution :
                   distribution[k][1] = MergedLabels(data, has_ru)[i]
          /\ \A j, k \in DOMAIN distribution :
                distribution[j][1] = distribution[k][1] => j = k

\* A dataset of two pseudo-label rows with messages and one row of another
\* category has been reported: one group, one distribution row, count 1.
C18_Witness ==
    /\ apc = "reported"
    /\ Cardinality(SentinelRows) = 2
    /\ \A i \in SentinelRows : data[i].msg = Str(<<"m", "m", " ">>)
    /\ problems_ordered = << StrLabel("dorogi", "lower", FALSE) >>
    /\ DOMAIN groups = { StrLabel("dorogi", "lower", FALSE) }
    /\ distribution = << <<StrLabel("dorogi", "lower", FALSE), 1>> >>

---------------------------------------------------------------------------
(* Properties of the cache within a run, under SpecFiles *)

\* The entries the run loaded at its start
LoadedEntries == LoadCache(first_out.found)

\* c keeps every entry of b with its value.
Keeps(c, b) == \A k \in DOMAIN b : k \in DOMAIN c /\ c[k] = b[k]

\* C19 (append-only cache): within a run no step changes or removes an entry
\* of the in-memory cache; a cache hit writes neither the cache nor its file;
\* the content written at the end of the run holds every entry loaded at the
\* start with its value.
C19_CacheAppendOnly ==
    [][ (pc = "rows") =>
           /\ Keeps(cache', cache)
           /\ (last'.kind = "hit" /\ row' = row + 1) =>
                 cache' = cache /\ cache_file' = cache_file
           /\ (pc' = "done" /\ last'.kind = "saved" /\ cache_file'.kind = "object") =>
                 /\ Keeps(cache_file'.entries, LoadedEntries)
                 /\ Keeps(cache_file'.entries, cache) ]_vars

\* A run that loaded the entry of an earlier run, answered a row from it,
\* stored a second entry on a miss, and has written both.
C19_Witness ==
    /\ pc = "done" /\ last.kind = "saved"
    /\ first_out.found = WrittenFile
    /\ calls = 1 /\ lookups = 2
    /\ Cardinality(DOMAIN cache_file.entries) = 2
    /\ Keeps(cache_file.entries, WrittenFile.entries)

\* C20 (entries only on oracle success): after a miss whose response is an
\* object without a list-valued problem_ids, so that the row got no label,
\* the cache has no entry for the key of that row.
C20_DegradedResponseNotCached ==
    (/\ last.kind = "miss"
     /\ last_resp.kind = "object"
     /\ last_resp.pid # "list") =>
        LastKey \notin DOMAIN cache

\* C21 (results of other rows survive a failing row): when the oracle call or
\* the parsing of its response raises for a row, the id sequences the run
\* obtained for earlier rows are in the cache file.
C21_EarlierResultsPersisted ==
    (/\ pc = "aborted"
     /\ last_resp.kind \in {"raise", "text", "nonobject"}) =>
        /\ (cache # EmptyCache) => cache_file.kind = "object"
        /\ Keeps(cache_file.entries, cache)

---------------------------------------------------------------------------
(* cli/main.py: generation of the sections, sequentially or by a pool       *)
(*                                                                         *)
(* generate_section and edit_section each issue one request and return a    *)
(* text and its usage, or raise. The editor's text is one line that is no   *)
(* heading, quote or link, or is blank.                                     *)

MaxWorkers == 3

\* What generate_section and edit_section return as usage
GenUsage == [prompt_tokens |-> 2, completion_tokens |-> 1, total_tokens |-> 3]
EditUsage == [prompt_tokens |-> 3, completion_tokens |-> 2, total_tokens |-> 5]

\* What the two requests of one section may do
SectionAnswers ==
    { [gen |-> "raise", edit |-> "none", text |-> <<>>],
      [gen |-> "ok", edit |-> "raise", text |-> <<>>],
      [gen |-> "ok", edit |-> "ok", text |-> <<" ">>],
      [gen |-> "ok", edit |-> "ok", text |-> <<"p", " ">>] }

\* parse_editor_output(text) on such a text
ParseEditorOutput(text) ==
    IF Strip(text) = <<>> THEN <<>>
    ELSE << [type |-> "paragraph", text |-> RStripChars(text, Whitespace)] >>

NoSection == [title |-> [text |-> NoneLabel, paren |-> NoneLabel], blocks |-> <<>>]
NoResult == [kind |-> "none", section |-> NoSection, usage |-> ZeroUsage]

\* Lines 129-134: the section that stands for a failed one
Placeholder(problem_key, group, error) ==
    [title |-> [text |-> IF group.problem_ru # NoneLabel
                         THEN group.problem_ru ELSE problem_key,
                paren |-> NoneLabel],
     blocks |-> << [type |-> "paragraph", text |-> <<"error", error>>] >>]

\* Lines 113-123: the section of an edited text
EditedSection(problem_key, group, text) ==
    LET ru_title == group.problem_ru
        blocks == ParseEditorOutput(text)
    IN  [title |-> IF ru_title # NoneLabel /\ ru_title # problem_key
                   THEN [text |-> ru_title, paren |-> problem_key]
                   ELSE [text |-> problem_key, paren |-> NoneLabel],
         blocks |-> IF blocks = <<>>
                    THEN << [type |-> "paragraph", text |-> text] >>
                    ELSE blocks]

\* A buggy variant: no handler, the exception leaves process_section.
ProcessSectionUnguarded(problem_key, group, ans) ==
    IF ans.gen = "raise" \/ ans.edit = "raise"
    THEN [kind |-> "raised", section |-> NoSection, usage |-> ZeroUsage]
    ELSE [kind |-> "returned",
          section |-> EditedSection(problem_key, group, ans.text),
          usage |-> AddUsage(GenUsage, EditUsage)]

\* process_section(problem_key, group) with the requests answering `ans`
ProcessSection(problem_key, group, ans) ==
    IF ans.gen = "raise"
    THEN [kind |-> "returned",
          section |-> Placeholder(problem_key, group, "generate"),
          usage |-> ZeroUsage]
    ELSE IF ans.edit = "raise"
    THEN [kind |-> "returned",
          section |-> Placeholder(problem_key, group, "edit"),
          usage |-> ZeroUsage]
    ELSE [kind |-> "returned",
          section |-> EditedSection(problem_key, group, ans.text),
          usage |-> [c \in DOMAIN GenUsage |-> GenUsage[c] + EditUsage[c]]]

\* A buggy variant: the usage of a section is dropped.
AddSectionUsageNever(tot, u) == tot

\* total_usage[...] += usage[...], lines 143-145 and 153-155
AddSectionUsage(tot, u) == [c \in DOMAIN tot |-> tot[c] + u[c]]

\* for p in problems_ordered if groups.get(p)
Submitted == { p \in Range(problems_ordered) : p \in DOMAIN groups }

\* Lines 97-98 and 136-139: the branch on args.concurrency; the pool gets one
\* task per problem with a group.
StartSections ==
    /\ apc = "assembled" /\ spc = "ready"
    /\ sections' = <<>> /\ total_usage' = ZeroUsage
    /\ IF workers > 1
       THEN /\ spc' = "pool"
            /\ tasks' = [p \in Submitted |-> [st |-> "queued", result |-> NoResult]]
            /\ UNCHANGED si
       ELSE /\ spc' = "seq"
            /\ si' = 1
            /\ UNCHANGED tasks
    /\ UNCHANGED <<workers, answers>>

Running == { p \in DOMAIN tasks : tasks[p].st = "running" }

\* A free worker of the pool takes a queued task.
WorkerTake(p) ==
    /\ spc = "pool"
    /\ tasks[p].st = "queued"
    /\ Cardinality(Running) < workers
    /\ tasks' = [tasks EXCEPT ![p].st = "running"]
    /\ UNCHANGED <<spc, workers, answers, si, sections, total_usage>>

\* The worker's call of process_section ends; its outcome is kept in the future.
WorkerFinish(p) ==
    /\ spc = "pool"
    /\ tasks[p].st = "running"
    /\ tasks' = [tasks EXCEPT ![p] =
                    [st |-> "done",
                     result |-> ProcessSection(p, groups[p], answers[p])]]
    /\ UNCHANGED <<spc, workers, answers, si, sections, total_usage>>

\* Lines 140-145: as_completed yields a finished future; fut.result() returns
\* the pair or raises what the task raised.
JoinResult(p) ==
    /\ spc = "pool"
    /\ tasks[p].st = "done"
    /\ tasks' = [tasks EXCEPT ![p].st = "joined"]
    /\ IF tasks[p].result.kind = "raised"
       THEN /\ spc' = "failed"
            /\ UNCHANGED <<sections, total_usage>>
       ELSE /\ sections' = Append(sections, tasks[p].result.section)
            /\ total_usage' = AddSectionUsage(total_usage, tasks[p].result.usage)
            /\ UNCHANGED spc
    /\ UNCHANGED <<workers, answers, si>>

\* The loop over as_completed ends and the pool shuts down.
PoolExit ==
    /\ spc = "pool"
    /\ \A p \in DOMAIN tasks : tasks[p].st = "joined"
    /\ spc' = "collected"
    /\ UNCHANGED <<workers, answers, tasks, si, sections, total_usage>>

\* Lines 147-155: one iteration of the sequential loop.
SeqStep ==
    /\ spc = "seq" /\ si <= Len(problems_ordered)
    /\ si' = si + 1
    /\ LET p == problems_ordered[si]
       IN  IF p \notin DOMAIN groups
           THEN UNCHANGED <<spc, sections, total_usage>>
           ELSE LET r == ProcessSection(p, groups[p], answers[p])
                IN  IF r.kind = "raised"
                    THEN /\ spc' = "failed"
                         /\ UNCHANGED <<sections, total_usage>>
                    ELSE /\ sections' = Append(sections, r.section)
                         /\ total_usage' = AddSectionUsage(total_usage, r.usage)
                         /\ UNCHANGED spc
    /\ UNCHANGED <<workers, answers, tasks>>

SeqExit ==
    /\ spc = "seq" /\ si > Len(problems_ordered)
    /\ spc' = "collected"
    /\ UNCHANGED <<workers, answers, tasks, si, sections, total_usage>>

---------------------------------------------------------------------------
(* Specification: main() from assemble_problems to the collected sections,  *)
(* on datasets of three problems.                                           *)

Dorogi == StrLabel("dorogi", "lower", FALSE)
SomeMessage == Str(<<"m", "m", " ">>)
SectionDatasets ==
    { << r1, r2, r3 >> :
        r1 \in { [base |-> Dorogi, ru |-> NanLabel, msg |-> SomeMessage],
                 [base |-> Dorogi, ru |-> Dorogi, msg |-> SomeMessage] },
        r2 \in { [base |-> StrLabel("net", "cap", FALSE), ru |-> Dorogi,
                  msg |-> SomeMessage],
                 [base |-> StrLabel("net", "cap", FALSE), ru |-> Dorogi,
                  msg |-> NaN] },
        r3 \in { [base |-> StrLabel("zasuha", "lower", FALSE), ru |-> NanLabel,
                  msg |-> SomeMessage],
                 [base |-> StrLabel("zasuha", "lower", FALSE), ru |-> NanLabel,
                  msg |-> NaN] } }
SectionKeys == { Dorogi, StrLabel("net", "cap", FALSE), EcologyCategory }

SectionsInit ==
    /\ apc = "loaded"
    /\ data \in SectionDatasets
    /\ has_ru = TRUE
    /\ problems_ordered = <<>> /\ groups = <<>> /\ distribution = <<>>
    /\ spc = "ready"
    /\ workers \in 1..MaxWorkers
    /\ answers \in [SectionKeys -> SectionAnswers]
    /\ tasks = <<>> /\ si = 1 /\ sections = <<>> /\ total_usage = ZeroUsage

InitSections ==
    RunInit /\ KeyIdle /\ JsonIdle /\ MergeIdle /\ CliIdle /\ SectionsInit

NextSections ==
    \/ AssembleProblems(2, 2)
          /\ UNCHANGED <<runVars, keyVars, jsonVars, mergeVars, cliVars, secVars>>
    \/ StartSections
          /\ UNCHANGED <<runVars, keyVars, jsonVars, mergeVars, cliVars, asmVars>>
    \/ (\E p \in DOMAIN tasks : WorkerTake(p))
          /\ UNCHANGED <<runVars, keyVars, jsonVars, mergeVars, cliVars, asmVars>>
    \/ (\E p \in DOMAIN tasks : WorkerFinish(p))
          /\ UNCHANGED <<runVars, keyVars, jsonVars, mergeVars, cliVars, asmVars>>
    \/ (\E p \in DOMAIN tasks : JoinResult(p))
          /\ UNCHANGED <<runVars, keyVars, jsonVars, mergeVars, cliVars, asmVars>>
    \/ PoolExit
          /\ UNCHANGED <<runVars, keyVars, jsonVars, mergeVars, cliVars, asmVars>>
    \/ SeqStep
          /\ UNCHANGED <<runVars, keyVars, jsonVars, mergeVars, cliVars, asmVars>>
    \/ SeqExit
          /\ UNCHANGED <<runVars, keyVars, jsonVars, mergeVars, cliVars, asmVars>>

SpecSections == InitSections /\ [][NextSections]_vars

---------------------------------------------------------------------------
(* Properties of the section stage, under SpecSections *)

\* What the sequential loop makes of the first k problems: the sections in
\* the order of the problems and the counter-wise sum of their usage.
RECURSIVE SequentialRun(_)
SequentialRun(k) ==
    IF k = 0 THEN [sections |-> <<>>, total_usage |-> ZeroUsage]
    ELSE LET before == SequentialRun(k - 1)
             p == problems_ordered[k]
             r == ProcessSection(p, groups[p], answers[p])
         IN  IF p \notin DOMAIN groups THEN before
             ELSE [sections |-> Append(before.sections, r.section),
                   total_usage |->
                      [c \in DOMAIN ZeroUsage |->
                          before.total_usage[c] + r.usage[c]]]

\* The counter-wise sum of the usage the tasks of the set S returned
RECURSIVE ReturnedUsage(_)
ReturnedUsage(S) ==
    IF S = {} THEN ZeroUsage
    ELSE LET p == CHOOSE q \in S : TRUE
             rest == ReturnedUsage(S \ {p})
         IN  [c \in DOMAIN ZeroUsage |-> rest[c] + tasks[p].result.usage[c]]

Count(seq, x) == Cardinality({ i \in DOMAIN seq : seq[i] = x })
SameMultiset(a, b) ==
    \A x \in Range(a) \cup Range(b) : Count(a, x) = Count(b, x)

\* C22 (fan-in of the worker pool): with more than one worker, whatever the
\* order in which the tasks complete, the collected totals are the
\* counter-wise sum of the usage the tasks returned and the collected
\* sections are one per problem with a group: the multiset of sections and
\* the totals of the sequential loop. Only the joining step changes the
\* section list and the totals.
C22_PoolFanIn ==
    /\ [](workers > 1 /\ spc = "collected" =>
            /\ total_usage = ReturnedUsage(DOMAIN tasks)
            /\ total_usage = SequentialRun(Len(problems_ordered)).total_usage
            /\ Len(sections) = Cardinality(Submitted)
            /\ SameMultiset(sections,
                            SequentialRun(Len(problems_ordered)).sections))
    /\ [][ (spc = "pool" /\ <<sections, total_usage>>' # <<sections, total_usage>>) =>
              \E p \in DOMAIN tasks :
                 /\ tasks[p].st = "done" /\ tasks'[p].st = "joined"
                 /\ \A q \in DOMAIN tasks \ {p} : tasks'[q] = tasks[q] ]_vars

\* A pool of two workers has collected three sections, one of them a
\* placeholder, in an order that is not the order of the problems.
C22_Witness ==
    /\ spc = "collected" /\ workers = 2
    /\ Len(sections) = 3
    /\ sections # SequentialRun(Len(problems_ordered)).sections
    /\ total_usage = [prompt_tokens |-> 10, completion_tokens |-> 6,
                      total_tokens |-> 16]

\* The problems whose generation or editing raises, and the others.
Failing == { p \in Submitted : answers[p].gen = "raise" \/ answers[p].edit = "raise" }
Succeeding == Submitted \ Failing

\* What main() is to collect for problem p: the placeholder with no usage when
\* a request of p raises, the edited section with the usage of both requests
\* otherwise; it depends on no other problem.
ExpectedSection(p) ==
    IF p \in Failing
    THEN [title |-> [text |-> IF groups[p].problem_ru # NoneLabel
                              THEN groups[p].problem_ru ELSE p,
                     paren |-> NoneLabel],
          blocks |-> << [type |-> "paragraph",
                         text |-> <<"error", IF answers[p].gen = "raise"
                                             THEN "generate" ELSE "edit">>] >>]
    ELSE EditedSection(p, groups[p], answers[p].text)
ExpectedUsage(p) ==
    IF p \in Failing THEN ZeroUsage
    ELSE [prompt_tokens |-> 5, completion_tokens |-> 3, total_tokens |-> 8]

\* C24 (a failing section is isolated): in both modes no exception reaches
\* main(): a problem whose generation or editing raises yields the placeholder
\* section with all-zero usage, every other problem yields its own section and
\* usage, and the collected sections and totals are exactly these.
C24_SectionFailureIsolated ==
    /\ spc # "failed"
    /\ \A p \in DOMAIN tasks :
          tasks[p].st \in {"done", "joined"} =>
             /\ tasks[p].result.kind = "returned"
             /\ tasks[p].result.section = ExpectedSection(p)
             /\ tasks[p].result.usage = ExpectedUsage(p)
    /\ (spc \in {"pool", "seq", "collected"}) =>
          \A k \in DOMAIN sections :
             \E p \in Submitted : sections[k] = ExpectedSection(p)
    /\ (spc = "collected") =>
          /\ \A p \in Submitted :
                Count(sections, ExpectedSection(p)) =
                   Cardinality({ q \in Submitted :
                                   ExpectedSection(q) = ExpectedSection(p) })
          /\ Len(sections) = Cardinality(Submitted)
          /\ total_usage =
                [prompt_tokens |-> 5 * Cardinality(Succeeding),
                 completion_tokens |-> 3 * Cardinality(Succeeding),
                 total_tokens |-> 8 * Cardinality(Succeeding)]

\* Three sections have been collected: one whose generation raised, one whose
\* editing raised, one that succeeded and alone counts in the totals.
C24_Witness ==
    /\ spc = "collected"
    /\ Cardinality(Submitted) = 3
    /\ \E p \in Submitted : answers[p].gen = "raise"
    /\ \E p \in Submitted : answers[p].gen = "ok" /\ answers[p].edit = "raise"
    /\ Cardinality(Succeeding) = 1
    /\ total_usage = [prompt_tokens |-> 5, completion_tokens |-> 3,
                      total_tokens |-> 8]

---------------------------------------------------------------------------
(* Specification: one run of classify_dataframe on a corpus in which texts  *)
(* repeat, as they are and with other padding, from any cache file, with an *)
(* oracle that answers well.                                                *)

PaddedTexts == RawTexts \cup { Str(<<"a">>) }

StartPadded ==
    /\ runs = 0
    /\ StartWith(PaddedTexts)
    /\ first_out' = [taken |-> FALSE, found |-> cache_file]

InitPadded ==
    FilesInit /\ KeyIdle /\ JsonIdle /\ MergeIdle /\ CliIdle /\ AsmIdle /\ SecIdle

NextPadded ==
    \/ StartPadded /\ UNCHANGED <<keyVars, jsonVars, mergeVars, cliVars, asmVars, secVars>>
    \/ BlankRow /\ UNCHANGED <<first_out, keyVars, jsonVars, mergeVars, cliVars, asmVars, secVars>>
    \/ CacheHit /\ UNCHANGED <<first_out, keyVars, jsonVars, mergeVars, cliVars, asmVars, secVars>>
    \/ GoodMiss /\ UNCHANGED <<keyVars, jsonVars, mergeVars, cliVars, asmVars, secVars>>
    \/ LookupRaises /\ UNCHANGED <<first_out, keyVars, jsonVars, mergeVars, cliVars, asmVars, secVars>>
    \/ Finish /\ UNCHANGED <<keyVars, jsonVars, mergeVars, cliVars, asmVars, secVars>>

SpecPadded == InitPadded /\ [][NextPadded]_vars

\* The rows the run has handled that have a text, and the key of a row.
HandledTexts == { r \in 1..(row - 1) : ~NoText(df[r]) }
KeyOfRow(r) == CacheKey(Strip(TextRaw(df[r])), problems_ru)

\* C23 (one oracle call per fingerprint per run): while a run goes on and
\* when it has returned, its oracle calls number the distinct fingerprints of
\* the rows handled that have a text and were not in the cache at its start;
\* a row whose trimmed text is that of an earlier row is a cache hit and has
\* the label columns of the earlier row.
C23_OneCallPerFingerprint ==
    (runs = 1 /\ pc \in {"rows", "done"}) =>
        /\ calls = Cardinality({ KeyOfRow(r) : r \in HandledTexts }
                                  \ DOMAIN LoadedEntries)
        /\ \A j, k \in HandledTexts :
              (j < k /\ Strip(TextRaw(df[j])) = Strip(TextRaw(df[k]))) =>
                 /\ candidates_ru[k] = candidates_ru[j]
                 /\ first_ru[k] = first_ru[j]
                 /\ \A l \in Range(langs) :
                       /\ per_lang_candidates[l][k] = per_lang_candidates[l][j]
                       /\ per_lang_first[l][k] = per_lang_first[l][j]
                 /\ (k = row - 1 /\ pc = "rows") => last.kind = "hit"

\* A run has returned that paid one call for two rows with the same text
\* under different padding, and gave both the same label.
C23_Witness ==
    /\ runs = 1 /\ pc = "done"
    /\ df = << Str(<<" ", "a">>), Str(<<"a">>) >>
    /\ first_out.found = AbsentFile
    /\ calls = 1 /\ lookups = 2
    /\ first_ru[1] # <<>> /\ first_ru[2] = first_ru[1]

---------------------------------------------------------------------------
(* Properties of _merge_key_for_row applied to its own result, under        *)
(* SpecMerge                                                                *)

\* C25 (the normalizer is idempotent): the merged category of a row, merged
\* again with no secondary label, is itself; no umbrella category name is in
\* a synonym set, and the synonym sets are pairwise disjoint.
C25_MergeIdempotent ==
    /\ (mpc = "merged") => MergeKeyForRow(merged, NoneLabel) = merged
    /\ \A g, h \in SynonymGroups :
          /\ NormalizeLabel(g.category) \notin h.synonyms
          /\ (g # h) => g.synonyms \cap h.synonyms = {}

\* A padded, capitalised road label with a drought label as the secondary
\* one has been merged into the ecology category.
C25_Witness ==
    /\ mpc = "merged"
    /\ base_label = StrLabel("dorogi", "cap", TRUE)
    /\ ru_label = StrLabel("zasuha", "lower", FALSE)
    /\ merged = EcologyCategory

============================================================================
